---- MODULE Spec2Model ----
(***************************************************************************)
(* Model of upbankapi/models.py: the five resource classes (Transaction,   *)
(* Account, Webhook, WebhookLog, WebhookEvent), their constructors and     *)
(* their methods, which forward to an external client.                     *)
(*                                                                         *)
(* Python values are modelled as follows.                                  *)
(*   None            [none |-> TRUE]                                       *)
(*   str             [str |-> "..."]                                       *)
(*   int             [num |-> n]                                           *)
(*   list            [list |-> <<...>>]                                    *)
(*   dict            a function from its keys (strings) to values; a key   *)
(*                   that is not in the dict is not in the DOMAIN          *)
(*   datetime/float  [datetime |-> ...] / [float |-> ...] (see the tables) *)
(* Undefined stands for the value of an expression whose evaluation        *)
(* raised; it is never stored in an object.                                *)
(***************************************************************************)
EXTENDS Integers, Sequences, FiniteSets, TLC

VARIABLES self, input, exc, calls, reply, ret, op

vars == <<self, input, exc, calls, reply, ret, op>>

(* ------------------------------ bounds -------------------------------- *)

\* Longest relationships.tags.data list of a raw transaction.
MaxTags == 2

\* Most client calls made through one object before the model stops calling.
MaxCalls == 2

(* --------------------------- Python values ---------------------------- *)

None == [none |-> TRUE]

Undefined == [undefined |-> TRUE]

Str(s) == [str |-> s]

Num(n) == [num |-> n]

List(seq) == [list |-> seq]

EmptyDict == [k \in {} |-> None]

\* bool(v): None, "", 0, [] and {} are false, everything else is true.
Truthy(v) ==
  /\ v /= None
  /\ v /= Undefined
  /\ v /= Str("")
  /\ v /= Num(0)
  /\ v /= List(<<>>)
  /\ DOMAIN v /= {}

\* The value of d[k] (Undefined when the subscript raises).
GetItem(d, k) == IF k \in DOMAIN d /\ d /= None /\ d /= Undefined THEN d[k] ELSE Undefined

\* The outcome of evaluating d[k] for a dict or None d: subscripting None
\* raises TypeError, a key that is not in the dict raises KeyError.
GetItemErr(d, k) ==
  IF d = None THEN "TypeError"
  ELSE IF k \in DOMAIN d THEN "OK"
  ELSE "KeyError"

\* d.get(k): the value, or None when the key is not in the dict.
DictGet(d, k) == IF k \in DOMAIN d THEN d[k] ELSE None

\* The first outcome of a sequence of evaluation outcomes that is not "OK":
\* statements run in order and the first exception ends the constructor.
FirstErr(steps) ==
  IF \A i \in 1..Len(steps) : steps[i] = "OK" THEN "OK"
  ELSE steps[CHOOSE i \in 1..Len(steps) :
               /\ steps[i] /= "OK"
               /\ \A j \in 1..(i - 1) : steps[j] = "OK"]

\* An f-string: the parts it interpolates, in order.
Format(parts) == [fstring |-> parts]

(* ------------------------ parsing conversions ------------------------- *)

GoodTime == "2023-01-01T10:00:00+10:00"

LaterTime == "2023-01-02T08:30:00+10:00"

BadTime == "yesterday"

\* datetime.fromisoformat on the timestamps of the model: year, month, day,
\* hour, minute, second, UTC offset in minutes.
IsoTable ==
  [s \in {GoodTime, LaterTime} |->
     IF s = GoodTime THEN <<2023, 1, 1, 10, 0, 0, 600>>
     ELSE <<2023, 1, 2, 8, 30, 0, 600>>]

FromIsoFormatErr(v) ==
  IF v = None THEN "TypeError"
  ELSE IF "str" \in DOMAIN v /\ v.str \in DOMAIN IsoTable THEN "OK"
  ELSE "ValueError"

FromIsoFormat(v) ==
  IF FromIsoFormatErr(v) = "OK" THEN [datetime |-> IsoTable[v.str]] ELSE Undefined

\* float() on the numeric strings of the model, in hundredths.
FloatTable ==
  [s \in {"-4.50", "120.00"} |-> IF s = "-4.50" THEN -450 ELSE 12000]

FloatErr(v) ==
  IF v = None THEN "TypeError"
  ELSE IF "str" \in DOMAIN v /\ v.str \in DOMAIN FloatTable THEN "OK"
  ELSE "ValueError"

Float(v) ==
  IF FloatErr(v) = "OK" THEN [float |-> FloatTable[v.str]] ELSE Undefined

(* ----------------------------- constants ----------------------------- *)

\* const.TRANSACTION_SETTLED, imported at the top of models.py.
TRANSACTION_SETTLED == Str("SETTLED")

\* The client handles an object may be constructed with.
Clients == {[client |-> "A"], [client |-> "B"]}

\* What the client may return from a call; the model does not look inside.
ClientReplies == {[result |-> "r1"], [result |-> "r2"]}

(* ------------------------- raw JSON, generally ------------------------ *)

Without(d, k) == [x \in DOMAIN d \ {k} |-> d[x]]

RECURSIVE RemovePath(_, _)
\* The dict d with the key at the end of path p removed (d itself when the
\* path does not lead through dicts).
RemovePath(d, p) ==
  IF d = None \/ p[1] \notin DOMAIN d THEN d
  ELSE IF Len(p) = 1 THEN Without(d, p[1])
  ELSE [d EXCEPT ![p[1]] = RemovePath(d[p[1]], Tail(p))]

RECURSIVE SetPath(_, _, _)
\* The dict d with the value at the end of path p replaced by v.
SetPath(d, p, v) ==
  IF d = None \/ p[1] \notin DOMAIN d THEN d
  ELSE IF Len(p) = 1 THEN [d EXCEPT ![p[1]] = v]
  ELSE [d EXCEPT ![p[1]] = SetPath(d[p[1]], Tail(p), v)]

\* A JSON:API resource identifier {type, id}.
Ref(type, id) == [type |-> Str(type), id |-> Str(id)]

Money(value, code) == [value |-> Str(value), currencyCode |-> Str(code)]

(* ----------------------------- Transaction ---------------------------- *)

TagRefs == {Ref("tags", "food"), Ref("tags", "work")}

TagLists == UNION {[1..n -> TagRefs] : n \in 0..MaxTags}

CategoryData == {None, Ref("categories", "takeaway"), Ref("categories", "")}

ParentCategoryData == {None, Ref("categories", "good-life"), Ref("categories", "")}

RawTransaction(status, message, settledAt, cat, parent, tags) ==
  [type |-> Str("transactions"),
   id |-> Str("t1"),
   attributes |->
     [status |-> status,
      rawText |-> None,
      description |-> Str("Coffee"),
      message |-> message,
      settledAt |-> settledAt,
      createdAt |-> Str(GoodTime),
      amount |-> Money("-4.50", "AUD")],
   relationships |->
     [category |-> [data |-> cat],
      parentCategory |-> [data |-> parent],
      tags |-> [data |-> List(tags)]]]

\* Raw transactions of the documented shape; status may be a string the
\* documentation does not list, or null.
WellFormedTransactions ==
  {RawTransaction(st, m, sa, c, pc, tg) :
     st \in {Str("HELD"), Str("SETTLED"), Str("PENDING"), None},
     m \in {None, Str(""), Str("thanks")},
     sa \in {None, Str(LaterTime)},
     c \in CategoryData,
     pc \in ParentCategoryData,
     tg \in TagLists}

TransactionBases ==
  {RawTransaction(Str("SETTLED"), None, Str(LaterTime), None,
                  Ref("categories", "good-life"), <<Ref("tags", "food")>>),
   RawTransaction(Str("HELD"), Str("thanks"), None,
                  Ref("categories", "takeaway"), None, <<>>)}

\* Raw transactions in which a value that is present has the wrong form.
BadValueTransactions ==
  UNION {{SetPath(b, <<"attributes", "createdAt">>, Str(BadTime)),
          SetPath(b, <<"attributes", "createdAt">>, None),
          SetPath(b, <<"attributes", "settledAt">>, Str(BadTime)),
          SetPath(b, <<"attributes", "amount", "value">>, Str("lots")),
          SetPath(b, <<"attributes", "amount">>, None),
          SetPath(b, <<"relationships", "category">>, None),
          SetPath(b, <<"relationships", "tags", "data">>, None),
          SetPath(b, <<"relationships", "tags", "data">>,
                  List(<<Ref("tags", "food"), [type |-> Str("tags")]>>))}
         : b \in TransactionBases}

TransactionKeyPaths ==
  {<<"id">>, <<"attributes">>, <<"relationships">>,
   <<"attributes", "status">>, <<"attributes", "rawText">>,
   <<"attributes", "description">>, <<"attributes", "message">>,
   <<"attributes", "settledAt">>, <<"attributes", "createdAt">>,
   <<"attributes", "amount">>, <<"attributes", "amount", "value">>,
   <<"attributes", "amount", "currencyCode">>,
   <<"relationships", "category">>, <<"relationships", "category", "data">>,
   <<"relationships", "parentCategory">>,
   <<"relationships", "parentCategory", "data">>,
   <<"relationships", "tags">>, <<"relationships", "tags", "data">>}

\* Raw transactions with one key missing, alone or besides a bad value.
MissingKeyTransactions ==
  {RemovePath(b, p) : b \in TransactionBases \cup BadValueTransactions,
                      p \in TransactionKeyPaths}

RawTransactions ==
  WellFormedTransactions \cup BadValueTransactions \cup MissingKeyTransactions

\* Variant: the comparison inverted.
Transaction_pending_inverted(status) == status = TRANSACTION_SETTLED

\* self.pending = self.status != TRANSACTION_SETTLED
Transaction_pending(status) == status /= TRANSACTION_SETTLED

\* The outcome of  relationships[name]["data"]["id"] if
\* relationships[name]["data"] else None.
OptionalRefErr(relationships, name) ==
  FirstErr(<<GetItemErr(relationships, name),
             GetItemErr(GetItem(relationships, name), "data"),
             IF Truthy(GetItem(GetItem(relationships, name), "data"))
             THEN GetItemErr(GetItem(GetItem(relationships, name), "data"), "id")
             ELSE "OK">>)

Transaction_category(relationships) ==
  IF Truthy(GetItem(GetItem(relationships, "category"), "data"))
  THEN GetItem(GetItem(GetItem(relationships, "category"), "data"), "id")
  ELSE None

\* Variant: the parent category read from the category relationship.
Transaction_parentCategory_copied(relationships) ==
  IF Truthy(GetItem(GetItem(relationships, "category"), "data"))
  THEN GetItem(GetItem(GetItem(relationships, "category"), "data"), "id")
  ELSE None

Transaction_parentCategory(relationships) ==
  IF Truthy(GetItem(GetItem(relationships, "parentCategory"), "data"))
  THEN GetItem(GetItem(GetItem(relationships, "parentCategory"), "data"), "id")
  ELSE None

\* The items of relationships["tags"]["data"] as the comprehension walks them.
TagItems(relationships) ==
  LET data == GetItem(GetItem(relationships, "tags"), "data")
  IN  IF data /= None /\ "list" \in DOMAIN data THEN data.list ELSE <<>>

Transaction_tagsErr(relationships) ==
  LET data == GetItem(GetItem(relationships, "tags"), "data")
      items == TagItems(relationships)
  IN  FirstErr(<<GetItemErr(relationships, "tags"),
                 GetItemErr(GetItem(relationships, "tags"), "data"),
                 IF data = None THEN "TypeError" ELSE "OK",
                 FirstErr([i \in 1..Len(items) |-> GetItemErr(items[i], "id")])>>)

\* Variant: an empty comprehension replaced by None.
Transaction_tags_or_none(relationships) ==
  LET items == TagItems(relationships)
  IN  IF items = <<>> THEN None
      ELSE List([i \in 1..Len(items) |-> GetItem(items[i], "id")])

\* [tag["id"] for tag in relationships["tags"]["data"]]
Transaction_tags(relationships) ==
  LET items == TagItems(relationships)
  IN  List([i \in 1..Len(items) |-> GetItem(items[i], "id")])

\* The outcome of each statement of Transaction.__init__, in order.
Transaction_init_steps(data) ==
  LET attributes == GetItem(data, "attributes")
      amount == GetItem(attributes, "amount")
      relationships == GetItem(data, "relationships")
  IN  <<GetItemErr(data, "id"),
        GetItemErr(data, "attributes"),
        GetItemErr(attributes, "status"),
        GetItemErr(attributes, "rawText"),
        GetItemErr(attributes, "description"),
        GetItemErr(attributes, "message"),
        GetItemErr(attributes, "settledAt"),
        IF Truthy(GetItem(attributes, "settledAt"))
        THEN FromIsoFormatErr(GetItem(attributes, "settledAt")) ELSE "OK",
        GetItemErr(attributes, "createdAt"),
        FromIsoFormatErr(GetItem(attributes, "createdAt")),
        GetItemErr(attributes, "amount"),
        GetItemErr(amount, "value"),
        FloatErr(GetItem(amount, "value")),
        GetItemErr(amount, "currencyCode"),
        GetItemErr(data, "relationships"),
        OptionalRefErr(relationships, "category"),
        OptionalRefErr(relationships, "parentCategory"),
        Transaction_tagsErr(relationships)>>

\* Transaction(client, data): the exception raised, or the object.
Transaction_init(client, data) ==
  LET attributes == GetItem(data, "attributes")
      relationships == GetItem(data, "relationships")
      err == FirstErr(Transaction_init_steps(data))
  IN  IF err /= "OK" THEN [err |-> err, obj |-> None]
      ELSE [err |-> "OK",
            obj |->
              [cls |-> "Transaction",
               _client |-> client,
               raw |-> data,
               id |-> data["id"],
               status |-> attributes["status"],
               pending |-> Transaction_pending(attributes["status"]),
               raw_text |-> attributes["rawText"],
               description |-> attributes["description"],
               message |-> attributes["message"],
               settled_at |->
                 IF Truthy(attributes["settledAt"])
                 THEN FromIsoFormat(attributes["settledAt"]) ELSE None,
               created_at |-> FromIsoFormat(attributes["createdAt"]),
               amount |-> Float(attributes["amount"]["value"]),
               currency |-> attributes["amount"]["currencyCode"],
               category |-> Transaction_category(relationships),
               parentCategory |-> Transaction_parentCategory(relationships),
               tags |-> Transaction_tags(relationships)]]

\* Transaction.format_desc(): the object afterwards, the client calls made
\* and the value returned.
Transaction_format_desc(obj) ==
  [self |-> obj,
   calls |-> <<>>,
   ret |-> IF Truthy(obj.message)
           THEN Format(<<obj.description, Str(": "), obj.message>>)
           ELSE Format(<<obj.description>>)]

Transaction_repr(obj) ==
  [self |-> obj,
   calls |-> <<>>,
   ret |-> Format(<<Str("<Transaction "), obj.status, Str(": "), obj.amount,
                    Str(" "), obj.currency, Str(" ["), obj.description,
                    Str("]>")>>)]

(* ------------------------------- Account ------------------------------ *)

RawAccount(id, type) ==
  [type |-> Str("accounts"),
   id |-> Str(id),
   attributes |->
     [displayName |-> Str("Spending"),
      accountType |-> Str(type),
      createdAt |-> Str(GoodTime),
      balance |-> Money("120.00", "AUD")]]

WellFormedAccounts ==
  {RawAccount(id, t) : id \in {"a1", "a2"}, t \in {"TRANSACTIONAL", "SAVER"}}

BadValueAccounts ==
  {SetPath(RawAccount("a1", "SAVER"), <<"attributes", "createdAt">>, Str(BadTime)),
   SetPath(RawAccount("a1", "SAVER"), <<"attributes", "balance", "value">>, None),
   SetPath(RawAccount("a1", "SAVER"), <<"attributes">>, None)}

AccountKeyPaths ==
  {<<"id">>, <<"attributes">>, <<"attributes", "displayName">>,
   <<"attributes", "accountType">>, <<"attributes", "createdAt">>,
   <<"attributes", "balance">>, <<"attributes", "balance", "value">>,
   <<"attributes", "balance", "currencyCode">>}

MissingKeyAccounts ==
  {RemovePath(b, p) : b \in {RawAccount("a1", "SAVER")} \cup BadValueAccounts,
                      p \in AccountKeyPaths}

RawAccounts == WellFormedAccounts \cup BadValueAccounts \cup MissingKeyAccounts

\* Variant: the display name read with .get, which does not raise.
Account_init_steps_lenient(data) ==
  LET attributes == GetItem(data, "attributes")
      balance == GetItem(attributes, "balance")
  IN  <<GetItemErr(data, "id"),
        GetItemErr(data, "attributes"),
        IF attributes = None THEN "AttributeError" ELSE "OK",
        GetItemErr(attributes, "accountType"),
        GetItemErr(attributes, "createdAt"),
        FromIsoFormatErr(GetItem(attributes, "createdAt")),
        GetItemErr(attributes, "balance"),
        GetItemErr(balance, "value"),
        FloatErr(GetItem(balance, "value")),
        GetItemErr(balance, "currencyCode")>>

\* The outcome of each statement of Account.__init__, in order.
Account_init_steps(data) ==
  LET attributes == GetItem(data, "attributes")
      balance == GetItem(attributes, "balance")
  IN  <<GetItemErr(data, "id"),
        GetItemErr(data, "attributes"),
        GetItemErr(attributes, "displayName"),
        GetItemErr(attributes, "accountType"),
        GetItemErr(attributes, "createdAt"),
        FromIsoFormatErr(GetItem(attributes, "createdAt")),
        GetItemErr(attributes, "balance"),
        GetItemErr(balance, "value"),
        FloatErr(GetItem(balance, "value")),
        GetItemErr(balance, "currencyCode")>>

\* Variant: Account.__init__ with the display name read with .get.
Account_init_lenient(client, data) ==
  LET attributes == GetItem(data, "attributes")
      err == FirstErr(Account_init_steps_lenient(data))
  IN  IF err /= "OK" THEN [err |-> err, obj |-> None]
      ELSE [err |-> "OK",
            obj |->
              [cls |-> "Account",
               _client |-> client,
               raw |-> data,
               id |-> data["id"],
               name |-> DictGet(attributes, "displayName"),
               type |-> attributes["accountType"],
               created_at |-> FromIsoFormat(attributes["createdAt"]),
               balance |-> Float(attributes["balance"]["value"]),
               currency |-> attributes["balance"]["currencyCode"]]]

\* Account(client, data): the exception raised, or the object.
Account_init(client, data) ==
  LET attributes == GetItem(data, "attributes")
      err == FirstErr(Account_init_steps(data))
  IN  IF err /= "OK" THEN [err |-> err, obj |-> None]
      ELSE [err |-> "OK",
            obj |->
              [cls |-> "Account",
               _client |-> client,
               raw |-> data,
               id |-> data["id"],
               name |-> attributes["displayName"],
               type |-> attributes["accountType"],
               created_at |-> FromIsoFormat(attributes["createdAt"]),
               balance |-> Float(attributes["balance"]["value"]),
               currency |-> attributes["balance"]["currencyCode"]]]

\* A call received by the client: the client it was made on, the operation,
\* the positional and the keyword arguments.
ClientCall(client, fn, pos, kw) == [client |-> client, fn |-> fn, pos |-> pos, kw |-> kw]

SomeTime == [datetime |-> IsoTable[GoodTime]]

\* The arguments of Account.transactions when the caller leaves them alone.
PlainArgs ==
  [limit |-> Num(20), page_size |-> Num(100), status |-> None, since |-> None,
   until |-> None, category |-> None, tag |-> None]

\* The other value the model gives each argument.
OtherArgs ==
  [limit |-> None, page_size |-> Num(30), status |-> Str("HELD"),
   since |-> SomeTime, until |-> [datetime |-> IsoTable[LaterTime]],
   category |-> Str("takeaway"), tag |-> Str("food")]

\* Argument lists: none, one, or all of the seven arguments changed.
TransactionsArgs ==
  {PlainArgs, OtherArgs}
  \cup {[PlainArgs EXCEPT ![k] = OtherArgs[k]] : k \in DOMAIN PlainArgs}

\* Variant: the tag filter is not passed on.
Account_transactions_no_tag(obj, args, answer) ==
  [self |-> obj,
   calls |-> <<ClientCall(obj._client, "transactions", <<>>,
                 [limit |-> args.limit, page_size |-> args.page_size,
                  status |-> args.status, since |-> args.since,
                  until |-> args.until, category |-> args.category,
                  tag |-> None, account_id |-> obj.id])>>,
   ret |-> answer]

\* Account.transactions(limit, page_size, status, since, until, category,
\* tag); answer is what the client returns.
Account_transactions(obj, args, answer) ==
  [self |-> obj,
   calls |-> <<ClientCall(obj._client, "transactions", <<>>,
                 [limit |-> args.limit, page_size |-> args.page_size,
                  status |-> args.status, since |-> args.since,
                  until |-> args.until, category |-> args.category,
                  tag |-> args.tag, account_id |-> obj.id])>>,
   ret |-> answer]

(* ------------------------------- Webhook ------------------------------ *)

\* The dict d without the keys bound to Undefined: an optional key the
\* payload leaves out.
Present(d) == [k \in {x \in DOMAIN d : d[x] /= Undefined} |-> d[k]]

RawWebhook(id, description, secretKey) ==
  [type |-> Str("webhooks"),
   id |-> Str(id),
   attributes |->
     Present([url |-> Str("https://example.com/hook"),
              description |-> description,
              secretKey |-> secretKey,
              createdAt |-> Str(GoodTime)])]

WellFormedWebhooks ==
  {RawWebhook(id, d, k) :
     id \in {"w1", "w2"},
     d \in {Undefined, None, Str("my hook")},
     k \in {Undefined, None, Str(""), Str("s3cret")}}

BadValueWebhooks ==
  {SetPath(RawWebhook("w1", None, Str("s3cret")), <<"attributes", "createdAt">>, None),
   SetPath(RawWebhook("w1", None, Str("s3cret")), <<"attributes">>, None)}

WebhookKeyPaths ==
  {<<"id">>, <<"attributes">>, <<"attributes", "url">>, <<"attributes", "createdAt">>}

MissingKeyWebhooks ==
  {RemovePath(b, p) :
     b \in {RawWebhook("w1", None, Str("s3cret"))} \cup BadValueWebhooks,
     p \in WebhookKeyPaths}

RawWebhooks == WellFormedWebhooks \cup BadValueWebhooks \cup MissingKeyWebhooks

\* The outcome of each statement of Webhook.__init__, in order; .get does
\* not raise on a dict.
Webhook_init_steps(data) ==
  LET attributes == GetItem(data, "attributes")
  IN  <<GetItemErr(data, "id"),
        GetItemErr(data, "attributes"),
        GetItemErr(attributes, "url"),
        GetItemErr(attributes, "createdAt"),
        FromIsoFormatErr(GetItem(attributes, "createdAt"))>>

\* Variant: an absent key read as the empty string.
Webhook_secret_key_blank(attributes) ==
  IF "secretKey" \in DOMAIN attributes THEN attributes["secretKey"] ELSE Str("")

\* self.secret_key = attributes.get("secretKey")
Webhook_secret_key(attributes) == DictGet(attributes, "secretKey")

\* Webhook(client, data): the exception raised, or the object.
Webhook_init(client, data) ==
  LET attributes == GetItem(data, "attributes")
      err == FirstErr(Webhook_init_steps(data))
  IN  IF err /= "OK" THEN [err |-> err, obj |-> None]
      ELSE [err |-> "OK",
            obj |->
              [cls |-> "Webhook",
               _client |-> client,
               raw |-> data,
               id |-> data["id"],
               url |-> attributes["url"],
               description |-> DictGet(attributes, "description"),
               secret_key |-> Webhook_secret_key(attributes),
               created_at |-> FromIsoFormat(attributes["createdAt"])]]

\* Webhook.ping()
Webhook_ping(obj, answer) ==
  [self |-> obj,
   calls |-> <<ClientCall(obj._client, "webhook.ping", <<obj.id>>, EmptyDict)>>,
   ret |-> answer]

\* The arguments of Webhook.logs.
LogsArgs == [limit : {None, Num(20)}, page_size : {Num(100), Num(30)}]

\* Webhook.logs(limit, page_size)
Webhook_logs(obj, args, answer) ==
  [self |-> obj,
   calls |-> <<ClientCall(obj._client, "webhook.logs", <<obj.id>>,
                 [limit |-> args.limit, page_size |-> args.page_size])>>,
   ret |-> answer]

\* Variant: the object remembers that it was deleted.
Webhook_delete_marking(obj, answer) ==
  [self |-> [k \in DOMAIN obj \cup {"deleted"} |->
               IF k = "deleted" THEN Str("yes") ELSE obj[k]],
   calls |-> <<ClientCall(obj._client, "webhook.delete", <<obj.id>>, EmptyDict)>>,
   ret |-> answer]

\* Webhook.delete()
Webhook_delete(obj, answer) ==
  [self |-> obj,
   calls |-> <<ClientCall(obj._client, "webhook.delete", <<obj.id>>, EmptyDict)>>,
   ret |-> answer]

(* ----------------------------- WebhookEvent --------------------------- *)

\* The relationships.transaction entries of the model: the key left out,
\* a transaction, a transaction with an empty id, and data null.
TransactionRels ==
  {Undefined,
   [data |-> Ref("transactions", "t1")],
   [data |-> Ref("transactions", "")],
   [data |-> None]}

RawEvent(id, eventType, webhookId, transaction) ==
  [type |-> Str("webhook-events"),
   id |-> Str(id),
   attributes |-> [eventType |-> Str(eventType), createdAt |-> Str(GoodTime)],
   relationships |->
     Present([webhook |-> [data |-> Ref("webhooks", webhookId)],
              transaction |-> transaction])]

WellFormedEvents ==
  {RawEvent("e1", t, w, tx) :
     t \in {"PING", "TRANSACTION_CREATED"},
     w \in {"w1", "w2"},
     tx \in TransactionRels}

BadValueEvents ==
  {SetPath(RawEvent("e1", "PING", "w1", Undefined),
           <<"attributes", "createdAt">>, Str(BadTime)),
   SetPath(RawEvent("e1", "PING", "w1", Undefined),
           <<"relationships", "webhook", "data">>, None),
   SetPath(RawEvent("e1", "PING", "w1", Undefined), <<"relationships">>, None)}

EventKeyPaths ==
  {<<"id">>, <<"attributes">>, <<"attributes", "eventType">>,
   <<"attributes", "createdAt">>, <<"relationships">>,
   <<"relationships", "webhook">>, <<"relationships", "webhook", "data">>,
   <<"relationships", "webhook", "data", "id">>,
   <<"relationships", "transaction", "data">>,
   <<"relationships", "transaction", "data", "id">>}

MissingKeyEvents ==
  {RemovePath(b, p) :
     b \in {RawEvent("e1", "PING", "w1", Undefined),
            RawEvent("e1", "TRANSACTION_CREATED", "w1",
                     [data |-> Ref("transactions", "t1")])}
           \cup BadValueEvents,
     p \in EventKeyPaths}

RawEvents == WellFormedEvents \cup BadValueEvents \cup MissingKeyEvents

\* The outcome of
\*   if "transaction" in relationships:
\*       self.transaction_id = relationships["transaction"]["data"]["id"]
WebhookEvent_transaction_idErr(relationships) ==
  IF relationships = None THEN "TypeError"
  ELSE IF "transaction" \notin DOMAIN relationships THEN "OK"
  ELSE FirstErr(<<GetItemErr(relationships["transaction"], "data"),
                  GetItemErr(GetItem(relationships["transaction"], "data"), "id")>>)

\* self.transaction_id after the two statements above.
WebhookEvent_transaction_id(relationships) ==
  IF "transaction" \in DOMAIN relationships
  THEN GetItem(GetItem(relationships["transaction"], "data"), "id")
  ELSE None

\* The outcome of each statement of WebhookEvent.__init__, in order.
WebhookEvent_init_steps(data) ==
  LET attributes == GetItem(data, "attributes")
      relationships == GetItem(data, "relationships")
      webhook == GetItem(relationships, "webhook")
  IN  <<GetItemErr(data, "id"),
        GetItemErr(data, "attributes"),
        GetItemErr(attributes, "eventType"),
        GetItemErr(attributes, "createdAt"),
        FromIsoFormatErr(GetItem(attributes, "createdAt")),
        GetItemErr(data, "relationships"),
        GetItemErr(relationships, "webhook"),
        GetItemErr(webhook, "data"),
        GetItemErr(GetItem(webhook, "data"), "id"),
        WebhookEvent_transaction_idErr(relationships)>>

\* WebhookEvent(client, data): the exception raised, or the object.
WebhookEvent_init(client, data) ==
  LET attributes == GetItem(data, "attributes")
      relationships == GetItem(data, "relationships")
      err == FirstErr(WebhookEvent_init_steps(data))
  IN  IF err /= "OK" THEN [err |-> err, obj |-> None]
      ELSE [err |-> "OK",
            obj |->
              [cls |-> "WebhookEvent",
               _client |-> client,
               raw |-> data,
               id |-> data["id"],
               type |-> attributes["eventType"],
               created_at |-> FromIsoFormat(attributes["createdAt"]),
               webhook_id |-> relationships["webhook"]["data"]["id"],
               transaction_id |-> WebhookEvent_transaction_id(relationships)]]

\* WebhookEvent.webhook()
WebhookEvent_webhook(obj, answer) ==
  [self |-> obj,
   calls |-> <<ClientCall(obj._client, "webhook", <<obj.webhook_id>>, EmptyDict)>>,
   ret |-> answer]

\* Variant: the reference tested against None instead of for truth.
WebhookEvent_transaction_not_none(obj, answer) ==
  IF obj.transaction_id /= None
  THEN [self |-> obj,
        calls |-> <<ClientCall(obj._client, "transaction",
                               <<obj.transaction_id>>, EmptyDict)>>,
        ret |-> answer]
  ELSE [self |-> obj, calls |-> <<>>, ret |-> None]

\* WebhookEvent.transaction(): a function that ends without return returns
\* None.
WebhookEvent_transaction(obj, answer) ==
  IF Truthy(obj.transaction_id)
  THEN [self |-> obj,
        calls |-> <<ClientCall(obj._client, "transaction",
                               <<obj.transaction_id>>, EmptyDict)>>,
        ret |-> answer]
  ELSE [self |-> obj, calls |-> <<>>, ret |-> None]

(* ------------------------------ WebhookLog ---------------------------- *)

\* json.loads on the request bodies of the model: each body is the JSON
\* text of the document the table gives for it.
JsonTable ==
  [s \in {"{ping event}", "{transaction event}", "{null transaction event}",
          "{no data}"} |->
     CASE s = "{ping event}" ->
            [data |-> RawEvent("e1", "PING", "w1", Undefined)]
       [] s = "{transaction event}" ->
            [data |-> RawEvent("e2", "TRANSACTION_CREATED", "w1",
                               [data |-> Ref("transactions", "t1")])]
       [] s = "{null transaction event}" ->
            [data |-> RawEvent("e3", "TRANSACTION_DELETED", "w1", [data |-> None])]
       [] OTHER -> [meta |-> None]]

JsonLoadsErr(v) ==
  IF v = None THEN "TypeError"
  ELSE IF "str" \in DOMAIN v /\ v.str \in DOMAIN JsonTable THEN "OK"
  ELSE "JSONDecodeError"

JsonLoads(v) == IF JsonLoadsErr(v) = "OK" THEN JsonTable[v.str] ELSE Undefined

\* The attributes.response values of the model.
Responses ==
  {None,
   [statusCode |-> Num(200), body |-> Str("ok")],
   [statusCode |-> Num(500), body |-> Str("")]}

RawLog(body, deliveryStatus, response) ==
  [type |-> Str("webhook-delivery-logs"),
   id |-> Str("l1"),
   attributes |->
     [request |-> [body |-> body],
      deliveryStatus |-> Str(deliveryStatus),
      createdAt |-> Str(GoodTime),
      response |-> response]]

WellFormedLogs ==
  {RawLog(Str(b), d, r) :
     b \in {"{ping event}", "{transaction event}"},
     d \in {"DELIVERED", "UNDELIVERABLE"},
     r \in Responses}

BadValueLogs ==
  {RawLog(Str("{null transaction event}"), "DELIVERED", None),
   RawLog(Str("{no data}"), "DELIVERED", None),
   RawLog(Str("not json"), "DELIVERED", None),
   RawLog(None, "DELIVERED", None),
   SetPath(RawLog(Str("{ping event}"), "DELIVERED", None),
           <<"attributes", "createdAt">>, Str(BadTime))}

LogKeyPaths ==
  {<<"id">>, <<"attributes">>, <<"attributes", "request">>,
   <<"attributes", "request", "body">>, <<"attributes", "deliveryStatus">>,
   <<"attributes", "createdAt">>, <<"attributes", "response">>}

MissingKeyLogs ==
  {RemovePath(b, p) :
     b \in {RawLog(Str("{ping event}"), "DELIVERED",
                   [statusCode |-> Num(200), body |-> Str("ok")])}
           \cup BadValueLogs,
     p \in LogKeyPaths}

RawLogs == WellFormedLogs \cup BadValueLogs \cup MissingKeyLogs

\* Variant: the response used as it is, without "or {}".
WebhookLog_response_as_is(attributes) == GetItem(attributes, "response")

\* response = attributes["response"] or {}
WebhookLog_response(attributes) ==
  IF Truthy(GetItem(attributes, "response"))
  THEN GetItem(attributes, "response") ELSE EmptyDict

\* The outcome of response.get(...): None has no attribute get.
GetAttrErr(response) == IF response = None THEN "AttributeError" ELSE "OK"

\* The outcome of each statement of WebhookLog.__init__, in order.
WebhookLog_init_steps(client, data) ==
  LET attributes == GetItem(data, "attributes")
      request == GetItem(attributes, "request")
      doc == JsonLoads(GetItem(request, "body"))
  IN  <<GetItemErr(data, "id"),
        GetItemErr(data, "attributes"),
        GetItemErr(attributes, "request"),
        GetItemErr(request, "body"),
        JsonLoadsErr(GetItem(request, "body")),
        GetItemErr(doc, "data"),
        WebhookEvent_init(client, GetItem(doc, "data")).err,
        GetItemErr(attributes, "deliveryStatus"),
        GetItemErr(attributes, "createdAt"),
        FromIsoFormatErr(GetItem(attributes, "createdAt")),
        GetItemErr(attributes, "response"),
        GetAttrErr(WebhookLog_response(attributes))>>

\* WebhookLog(client, data): the exception raised, or the object.
WebhookLog_init(client, data) ==
  LET attributes == GetItem(data, "attributes")
      response == WebhookLog_response(attributes)
      err == FirstErr(WebhookLog_init_steps(client, data))
  IN  IF err /= "OK" THEN [err |-> err, obj |-> None]
      ELSE [err |-> "OK",
            obj |->
              [cls |-> "WebhookLog",
               _client |-> client,
               raw |-> data,
               id |-> data["id"],
               event |->
                 WebhookEvent_init(client,
                   JsonLoads(attributes["request"]["body"])["data"]).obj,
               delivery_status |-> attributes["deliveryStatus"],
               created_at |-> FromIsoFormat(attributes["createdAt"]),
               response_code |-> DictGet(response, "statusCode"),
               response_body |-> DictGet(response, "body")]]

(* ---------------------------- the program ----------------------------- *)

Init ==
  /\ self = None
  /\ input = None
  /\ exc = "OK"
  /\ calls = <<>>
  /\ reply = None
  /\ ret = None
  /\ op = "start"

\* A constructor call cls(client, data) with outcome r. The model follows
\* one object at a time: the next one is constructed after Discard.
Construct(name, data, r) ==
  /\ self' = r.obj
  /\ input' = data
  /\ exc' = r.err
  /\ calls' = <<>>
  /\ reply' = None
  /\ ret' = None
  /\ op' = name

\* A method call on self with arguments args and outcome r; answer is what
\* the client returned, if the method called it.
Invoke(name, args, r, answer) ==
  /\ Len(calls) + Len(r.calls) <= MaxCalls
  /\ self' = r.self
  /\ input' = args
  /\ calls' = calls \o r.calls
  /\ reply' = IF r.calls = <<>> THEN None ELSE answer
  /\ ret' = r.ret
  /\ exc' = "OK"
  /\ op' = name

NewTransaction ==
  /\ op = "start"
  /\ \E c \in Clients, d \in RawTransactions :
       Construct("Transaction.__init__", d, Transaction_init(c, d))

NewAccount ==
  /\ op = "start"
  /\ \E c \in Clients, d \in RawAccounts :
       Construct("Account.__init__", d, Account_init(c, d))

NewWebhook ==
  /\ op = "start"
  /\ \E c \in Clients, d \in RawWebhooks :
       Construct("Webhook.__init__", d, Webhook_init(c, d))

NewWebhookLog ==
  /\ op = "start"
  /\ \E c \in Clients, d \in RawLogs :
       Construct("WebhookLog.__init__", d, WebhookLog_init(c, d))

NewWebhookEvent ==
  /\ op = "start"
  /\ \E c \in Clients, d \in RawEvents :
       Construct("WebhookEvent.__init__", d, WebhookEvent_init(c, d))

CallTransactionFormatDesc ==
  /\ self /= None /\ self.cls = "Transaction"
  /\ Invoke("Transaction.format_desc", None, Transaction_format_desc(self), None)

CallTransactionRepr ==
  /\ self /= None /\ self.cls = "Transaction"
  /\ Invoke("Transaction.__repr__", None, Transaction_repr(self), None)

CallAccountTransactions ==
  /\ self /= None /\ self.cls = "Account"
  /\ \E a \in TransactionsArgs, answer \in ClientReplies :
       Invoke("Account.transactions", a, Account_transactions(self, a, answer), answer)

CallWebhookPing ==
  /\ self /= None /\ self.cls = "Webhook"
  /\ \E answer \in ClientReplies :
       Invoke("Webhook.ping", None, Webhook_ping(self, answer), answer)

CallWebhookLogs ==
  /\ self /= None /\ self.cls = "Webhook"
  /\ \E a \in LogsArgs, answer \in ClientReplies :
       Invoke("Webhook.logs", a, Webhook_logs(self, a, answer), answer)

CallWebhookDelete ==
  /\ self /= None /\ self.cls = "Webhook"
  /\ \E answer \in ClientReplies :
       Invoke("Webhook.delete", None, Webhook_delete(self, answer), answer)

CallWebhookEventWebhook ==
  /\ self /= None /\ self.cls = "WebhookEvent"
  /\ \E answer \in ClientReplies :
       Invoke("WebhookEvent.webhook", None, WebhookEvent_webhook(self, answer), answer)

CallWebhookEventTransaction ==
  /\ self /= None /\ self.cls = "WebhookEvent"
  /\ \E answer \in ClientReplies :
       Invoke("WebhookEvent.transaction", None,
              WebhookEvent_transaction(self, answer), answer)

\* The caller takes the event out of a log: log.event.
TakeLogEvent ==
  /\ self /= None /\ self.cls = "WebhookLog"
  /\ self' = self.event
  /\ op' = "WebhookLog.event"
  /\ ret' = None
  /\ reply' = None
  /\ UNCHANGED <<input, exc, calls>>

\* The caller drops the object (or the exception) and starts afresh.
Discard ==
  /\ op /= "start"
  /\ self' = None
  /\ input' = None
  /\ exc' = "OK"
  /\ calls' = <<>>
  /\ reply' = None
  /\ ret' = None
  /\ op' = "start"

Next ==
  \/ Discard
  \/ NewTransaction
  \/ NewAccount
  \/ NewWebhook
  \/ NewWebhookLog
  \/ NewWebhookEvent
  \/ CallTransactionFormatDesc
  \/ CallTransactionRepr
  \/ CallAccountTransactions
  \/ CallWebhookPing
  \/ CallWebhookLogs
  \/ CallWebhookDelete
  \/ CallWebhookEventWebhook
  \/ CallWebhookEventTransaction
  \/ TakeLogEvent

Spec == Init /\ [][Next]_vars

(* ------------------------------- claims ------------------------------- *)

C3_OptionalCategories ==
  (self /= None /\ self.cls = "Transaction") =>
    LET rel == self.raw.relationships
    IN  /\ self.category =
             IF rel.category.data /= None THEN rel.category.data.id ELSE None
        /\ self.parentCategory =
             IF rel.parentCategory.data /= None
             THEN rel.parentCategory.data.id ELSE None
        /\ rel.category.data = None => self.category /= Str("")
        /\ rel.parentCategory.data = None => self.parentCategory /= Str("")

\* A transaction with a category and a null parent category.
C3_Witness ==
  /\ self /= None /\ self.cls = "Transaction"
  /\ op = "Transaction.__init__"
  /\ self.raw.relationships.parentCategory.data = None
  /\ self.category = Str("takeaway")
  /\ self.parentCategory = None

\* C7: in every Transaction object tags is a list, never None, with one
\* element per entry of relationships.tags.data, each that entry's id, in
\* the source order.
C7_TagsIsList ==
  (self /= None /\ self.cls = "Transaction") =>
    LET data == self.raw.relationships.tags.data.list
    IN  /\ self.tags /= None
        /\ DOMAIN self.tags = {"list"}
        /\ Len(self.tags.list) = Len(data)
        /\ \A i \in 1..Len(data) : self.tags.list[i] = data[i].id
        /\ data = <<>> => self.tags = List(<<>>)

\* A transaction with two different tags, in the source order.
C7_Witness ==
  /\ self /= None /\ self.cls = "Transaction"
  /\ self.tags = List(<<Str("work"), Str("food")>>)

\* C2 (as claimed): a WebhookEvent built from a well-formed raw object whose
\* relationships.transaction has data null is constructed and has
\* transaction_id None.
C2_NullTransactionIsAbsent ==
  (/\ op = "WebhookEvent.__init__"
   /\ input \in WellFormedEvents
   /\ "transaction" \in DOMAIN input.relationships
   /\ input.relationships.transaction.data = None) =>
    /\ exc = "OK"
    /\ self /= None
    /\ self.transaction_id = None

\* The names the constructors give the model's op variable.
Constructors ==
  {"Transaction.__init__", "Account.__init__", "Webhook.__init__",
   "WebhookLog.__init__", "WebhookEvent.__init__"}

\* The attribute keys each constructor reads with a subscript.
RequiredAttributes ==
  [c \in Constructors |->
     CASE c = "Transaction.__init__" ->
            {"status", "rawText", "description", "message", "settledAt",
             "createdAt", "amount"}
       [] c = "Account.__init__" ->
            {"displayName", "accountType", "createdAt", "balance"}
       [] c = "Webhook.__init__" -> {"url", "createdAt"}
       [] c = "WebhookLog.__init__" ->
            {"request", "deliveryStatus", "createdAt", "response"}
       [] OTHER -> {"eventType", "createdAt"}]

\* The raw object handed to the last constructor lacks the top-level id or
\* a required attribute key.
LacksRequiredKey ==
  /\ op \in Constructors
  /\ \/ "id" \notin DOMAIN input
     \/ \E k \in RequiredAttributes[op] :
          GetItem(GetItem(input, "attributes"), k) = Undefined

\* Raw objects of the documented shape but for one missing key: the id or a
\* required attribute.
OneKeyMissing ==
  {RemovePath(b, p) :
     b \in TransactionBases \cup WellFormedAccounts \cup WellFormedWebhooks
           \cup WellFormedLogs
           \cup {RawEvent("e1", "PING", "w1", Undefined)},
     p \in {<<"id">>} \cup
           {<<"attributes", k>> :
              k \in UNION {RequiredAttributes[c] : c \in Constructors}}}
  \ (WellFormedTransactions \cup WellFormedAccounts \cup WellFormedWebhooks
     \cup WellFormedLogs \cup WellFormedEvents)

C5_SecretKeyNeverEmpty ==
  (self /= None /\ self.cls = "Webhook") => self.secret_key /= Str("")

\* C5 (amended): the secret_key of a Webhook object is None when the raw
\* attributes have no secretKey, and otherwise the raw value unchanged, the
\* empty string included.
C5_SecretKeyAsGiven ==
  (self /= None /\ self.cls = "Webhook") =>
    self.secret_key =
      IF "secretKey" \in DOMAIN self.raw.attributes
      THEN self.raw.attributes.secretKey ELSE None

\* Webhooks built from attributes with an empty secretKey.
C5_Witness ==
  /\ self /= None /\ self.cls = "Webhook"
  /\ op = "Webhook.__init__"
  /\ "secretKey" \in DOMAIN input.attributes
  /\ input.attributes.secretKey = Str("")
  /\ self.secret_key = Str("")

\* C6: a well-formed raw log is constructed whatever its response; in every
\* WebhookLog object a null attributes.response gives response_code and
\* response_body None, and a response object gives its statusCode and body.
C6_ResponseFields ==
  /\ (op = "WebhookLog.__init__" /\ input \in WellFormedLogs) =>
       (exc = "OK" /\ self /= None)
  /\ (self /= None /\ self.cls = "WebhookLog") =>
       LET response == self.raw.attributes.response
       IN  IF response = None
           THEN self.response_code = None /\ self.response_body = None
           ELSE /\ self.response_code = response.statusCode
                /\ self.response_body = response.body

\* A log with no response recorded.
C6_Witness ==
  /\ self /= None /\ self.cls = "WebhookLog"
  /\ op = "WebhookLog.__init__"
  /\ self.raw.attributes.response = None
  /\ self.response_code = None
  /\ self.response_body = None

\* The names the methods give the model's op variable.
Methods ==
  {"Transaction.format_desc", "Transaction.__repr__", "Account.transactions",
   "Webhook.ping", "Webhook.logs", "Webhook.delete", "WebhookEvent.webhook",
   "WebhookEvent.transaction"}

\* The client has received a delete call through the current object.
DeleteSent == \E i \in 1..Len(calls) : calls[i].fn = "webhook.delete"

\* C8: no method changes any field of its object (id, raw and the client
\* reference included, and no field is added), and a ping() or logs() made
\* after delete() still reaches the object's client with the object's id.
C8_MethodsLeaveObjectAlone ==
  [][/\ op' \in Methods => self' = self
     /\ (op' = "Webhook.ping" /\ DeleteSent) =>
          calls' = Append(calls,
                     ClientCall(self._client, "webhook.ping", <<self.id>>, EmptyDict))
     /\ (op' = "Webhook.logs" /\ DeleteSent) =>
          calls' = Append(calls,
                     ClientCall(self._client, "webhook.logs", <<self.id>>, input'))
    ]_vars

\* A ping made through a webhook object after its delete.
C8_Witness ==
  /\ op = "Webhook.ping"
  /\ Len(calls) = 2
  /\ calls[1].fn = "webhook.delete"
  /\ calls[2].fn = "webhook.ping"
  /\ calls[2].pos = <<self.id>>
  /\ self.id = self.raw.id

\* C9: Account.transactions makes exactly one client call, transactions,
\* with the seven arguments as given and account_id the account's own id,
\* returns what the client returned and leaves the account as it was.
C9_TransactionsForwarded ==
  [][op' = "Account.transactions" =>
       /\ calls' = Append(calls,
            ClientCall(self._client, "transactions", <<>>,
              [k \in DOMAIN input' \cup {"account_id"} |->
                 IF k = "account_id" THEN self.raw.id ELSE input'[k]]))
       /\ DOMAIN input' = {"limit", "page_size", "status", "since", "until",
                           "category", "tag"}
       /\ ret' = reply'
       /\ reply' \in ClientReplies
       /\ self' = self
    ]_vars

\* A call with every argument set, on the second account.
C9_Witness ==
  /\ op = "Account.transactions"
  /\ self.id = Str("a2")
  /\ input = OtherArgs
  /\ calls[Len(calls)].kw.account_id = Str("a2")
  /\ calls[Len(calls)].kw.tag = Str("food")
  /\ ret = reply

\* C10: WebhookEvent.transaction makes one client call, transaction, with
\* the event's transaction_id and returns its result when transaction_id is
\* neither None nor empty; otherwise it makes no call and returns None. The
\* event is unchanged either way.
C10_TransactionOnlyWithReference ==
  [][op' = "WebhookEvent.transaction" =>
       /\ self' = self
       /\ IF self.transaction_id = None \/ self.transaction_id = Str("")
          THEN calls' = calls /\ ret' = None
          ELSE /\ calls' = Append(calls,
                    ClientCall(self._client, "transaction",
                               <<self.transaction_id>>, EmptyDict))
               /\ ret' = reply'
               /\ reply' \in ClientReplies
    ]_vars

\* An event with an empty transaction id asked for its transaction.
C10_Witness ==
  /\ op = "WebhookEvent.transaction"
  /\ self.transaction_id = Str("")
  /\ calls = <<>>
  /\ ret = None

====
